---- MODULE Spec2Model ----
(***************************************************************************)
(* FalaiPaint: the quality-metric engine (qa_metrics.py) and the           *)
(* correction pipeline that calls it (correction_pipeline.py).             *)
(*                                                                         *)
(* Numbers.  Python floats are modelled as exact integers in fixed point:  *)
(* a metric value v is the integer v * One, an overall quality or a score  *)
(* q is the integer q * QOne.  One is a multiple of 100 and of 17 so that  *)
(* every constant of the code (0.92, 3.0, 0.7, n/17 * 0.2, ...) is an      *)
(* integer.  Binary rounding of the floats is not modelled.  NaN, the one  *)
(* non-finite value the code can produce, is a value of its own and every  *)
(* float operation that can meet it is defined on it as Python defines it. *)
(*                                                                         *)
(* Images.  The numeric results of skimage and OpenCV on the pixels (the   *)
(* windowed similarity, the CIEDE2000 distances, the histogram             *)
(* correlation, the normal noise) are inputs of the model (the record      *)
(* lib); what the code does around them - region selection, empty         *)
(* regions, minimum window, defaults, weights, clamps, penalties,          *)
(* selection - is computed.  A mask is one row of MaskLen pixels.          *)
(***************************************************************************)
EXTENDS Integers, Sequences, FiniteSets, TLC

VARIABLES call, ret,
          entry, pc, original, disk, writable, args, qwen_success,
          nano_banana_success, inputs, report, method_status, recommendations,
          error

run_vars == <<entry, pc, original, disk, writable, args, qwen_success,
              nano_banana_success, inputs, report, method_status,
              recommendations, error>>
vars == <<call, ret, entry, pc, original, disk, writable, args, qwen_success,
          nano_banana_success, inputs, report, method_status, recommendations,
          error>>

---------------------------------------------------------------------------
(* Fixed point *)

One == 100 * 17
QOne == 1000 * One
Pct(p) == (p * One) \div 100

NaN == 0 - 1

Max(a, b) == IF b > a THEN b ELSE a
Min(a, b) == IF b < a THEN b ELSE a

---------------------------------------------------------------------------
(* Masks and regions *)

MaskLen == 8

Pixels == 1..MaskLen

MaskThreshold == 127
RingWidth == 8
WinSize == 7

\* A mask whose subject is the run of pixels [a, b): subject pixels have the
\* value fg, the others bg.
MaskOf(a, b, fg, bg) == [i \in Pixels |-> IF a <= i /\ i < b THEN fg ELSE bg]

PixelLevels == { <<MaskThreshold + 1, MaskThreshold>>, <<255, 0>> }

Masks ==
    { MaskOf(ab[1], ab[2], lv[1], lv[2]) :
        ab \in { x \in Pixels \X (1..(MaskLen + 1)) : x[1] < x[2] \/ x = <<1, 1>> },
        lv \in PixelLevels }

Foreground(mask) == { i \in Pixels : mask[i] > MaskThreshold }

Background(mask) == { i \in Pixels : mask[i] <= MaskThreshold }

\* cv2.getStructuringElement(MORPH_ELLIPSE, (width, width)): on a one-row image
\* only the anchor row of the element meets the image; that row is full, and
\* the anchor is at column width \div 2.  InKernel(i, k, width): pixel k is under
\* the element anchored at pixel i.
InKernel(i, k, width) ==
    /\ k - i >= 0 - (width \div 2)
    /\ k - i <= (width - 1) - (width \div 2)

binarize(mask) == [i \in Pixels |-> IF mask[i] > MaskThreshold THEN 1 ELSE 0]

\* cv2.dilate / cv2.erode: the maximum / minimum over the element; pixels outside
\* the image do not take part (the default border value).
dilate(m, width) ==
    [i \in Pixels |-> IF \E k \in Pixels : InKernel(i, k, width) /\ m[k] = 1 THEN 1 ELSE 0]

erode(m, width) ==
    [i \in Pixels |-> IF \A k \in Pixels : InKernel(i, k, width) => m[k] = 1 THEN 1 ELSE 0]

\* (dilated - eroded) > 0 on uint8 arrays.
ring_difference(dilated, eroded) ==
    { i \in Pixels : ((dilated[i] - eroded[i]) % 256) > 0 }

\* Variant: the ring is taken inside the subject only.
ring_of_inner(m, width) == ring_difference(m, erode(m, width))

ring_of(m, width) == ring_difference(dilate(m, width), erode(m, width))

mask_ring(mask, width) == ring_of(binarize(mask), width)

---------------------------------------------------------------------------
(* MetricEngine *)

ErrNone == "none"

\* skimage structural_similarity on the flattened background pixels: the
\* default window is WinSize, and an input shorter than the window raises.
calculate_ssim_background(mask, lib) ==
    IF Cardinality(Background(mask)) < WinSize
    THEN [error |-> "ValueError", value |-> 0]
    ELSE [error |-> ErrNone, value |-> lib.ssim]

\* np.nanmean of the per-pixel distances of the region; of no pixel it is NaN.
calculate_delta_e(region, libvalue) ==
    IF region = {} THEN NaN ELSE libvalue

calculate_style_consistency(mask, lib) ==
    IF Foreground(mask) = {} THEN 0 ELSE Max(0, lib.corr)

FullBody == 17

\* pose_keypoints is None or a dict: [kind, nkeys, points] with points the length
\* of its "points" list (0 when the key is missing).
PoseNone == [kind |-> "none", nkeys |-> 0, points |-> 0]
PoseDict(nkeys, n) == [kind |-> "dict", nkeys |-> nkeys, points |-> n]

Truthy(pose_keypoints) == pose_keypoints.kind = "dict" /\ pose_keypoints.nkeys > 0

\* Variant: an empty point list scores nothing.
calculate_pose_accuracy_zero(pose_keypoints, lib) ==
    IF pose_keypoints.points = 0
    THEN 0
    ELSE Max(0, Min(One, Pct(70)
                         + Min(Pct(20), (pose_keypoints.points * Pct(20)) \div FullBody)
                         + lib.noise))

calculate_pose_accuracy(pose_keypoints, lib) ==
    IF pose_keypoints.points = 0
    THEN Pct(80)
    ELSE LET keypoint_count == pose_keypoints.points
             \* min(1.0, keypoint_count / 17.0) * 0.2
             scaled == Min(Pct(20), (keypoint_count * Pct(20)) \div FullBody)
             base_score == Pct(70) + scaled
         IN  Max(0, Min(One, base_score + lib.noise))

---------------------------------------------------------------------------
(* Aggregator *)

MetricNames == << "ssim_background", "delta_e_background", "delta_e_edge",
                  "style_consistency", "pose_accuracy" >>

\* The weights, in hundredths.
weights == [ssim_background |-> 30, delta_e_background |-> 0 - 10,
            delta_e_edge |-> 0 - 20, style_consistency |-> 20,
            pose_accuracy |-> 30]

IsDeltaE(metric) == metric \in {"delta_e_background", "delta_e_edge"}

\* Variant: the colour differences are weighted raw, like the other metrics.
normalized_value_raw(metric, value) == 10 * value

\* normalized_value, in tenths of a metric unit.  max(0.0, nan) is 0.0 in
\* Python: max keeps its first argument unless a later one compares greater.
normalized_value(metric, value) ==
    IF IsDeltaE(metric)
    THEN IF value = NaN THEN 0 ELSE Max(0, 10 * One - value)
    ELSE 10 * value

RECURSIVE weighted_sum(_, _)
weighted_sum(results, k) ==
    IF k = 0 THEN 0
    ELSE weighted_sum(results, k - 1)
         + weights[MetricNames[k]] * normalized_value(MetricNames[k], results[MetricNames[k]])

\* Variant: the final clamp is left out.
overall_quality_unclamped(results) == weighted_sum(results, Len(MetricNames))

overall_quality(results) ==
    LET overall_score == weighted_sum(results, Len(MetricNames))
    IN  Max(0, Min(QOne, overall_score))

---------------------------------------------------------------------------
(* assess_generation_quality *)

NoMetrics == [ssim_background |-> 0, delta_e_background |-> 0, delta_e_edge |-> 0,
              style_consistency |-> 0, pose_accuracy |-> 0, overall_quality |-> 0]

Raised(e) == [error |-> e, metrics |-> NoMetrics]

with_overall(results, quality) ==
    [ssim_background |-> results.ssim_background,
     delta_e_background |-> results.delta_e_background,
     delta_e_edge |-> results.delta_e_edge,
     style_consistency |-> results.style_consistency,
     pose_accuracy |-> results.pose_accuracy,
     overall_quality |-> quality]

\* Variant: without keypoints the pose signal is the neutral default.
assess_metrics_neutral_pose(ssim, mask, style_given, pose_keypoints, lib) ==
    [ssim_background |-> ssim,
     delta_e_background |-> calculate_delta_e(Background(mask), lib.de_bg),
     delta_e_edge |-> calculate_delta_e(mask_ring(mask, RingWidth), lib.de_edge),
     style_consistency |->
         IF style_given THEN calculate_style_consistency(mask, lib) ELSE 0,
     pose_accuracy |->
         IF Truthy(pose_keypoints)
         THEN calculate_pose_accuracy(pose_keypoints, lib)
         ELSE Pct(80)]

assess_metrics(ssim, mask, style_given, pose_keypoints, lib) ==
    [ssim_background |-> ssim,
     delta_e_background |-> calculate_delta_e(Background(mask), lib.de_bg),
     delta_e_edge |-> calculate_delta_e(mask_ring(mask, RingWidth), lib.de_edge),
     style_consistency |->
         IF style_given THEN calculate_style_consistency(mask, lib) ELSE 0,
     pose_accuracy |->
         IF Truthy(pose_keypoints)
         THEN calculate_pose_accuracy(pose_keypoints, lib)
         ELSE 0]

assess_scored(results) ==
    [error |-> ErrNone, metrics |-> with_overall(results, overall_quality(results))]

assess_after_ssim(ssim, mask, style_given, pose_keypoints, lib) ==
    IF ssim.error # ErrNone THEN Raised(ssim.error)
    ELSE assess_scored(assess_metrics(ssim.value, mask, style_given, pose_keypoints, lib))

\* cv2.imread gives None for a file that is missing or not an image, and
\* cv2.cvtColor raises on None.  The scene and the mask are taken to be readable;
\* mask is the mask after the resize to the scene's size.
assess_generation_quality(generated_ok, mask, style_given, pose_keypoints, lib) ==
    IF ~generated_ok THEN Raised("cv2.error")
    ELSE assess_after_ssim(calculate_ssim_background(mask, lib), mask, style_given,
                           pose_keypoints, lib)

---------------------------------------------------------------------------
(* One call of assess_generation_quality on one candidate *)

\* What the libraries compute on the pixels of one candidate.
LibSsim == { 0 - One, Pct(80), Pct(92), One }
BigDeltaE == 1000
LibDeltaE == { 0, 3 * One, 10 * One, BigDeltaE * One }
LibCorr == { 0 - Pct(50), Pct(90) }
LibNoise == { 0 - One, 0, Pct(5) }
KeypointCounts == { 5, FullBody }

NoLib == [ssim |-> 0, de_bg |-> 0, de_edge |-> 0, corr |-> 0, noise |-> 0]

PoseInputs == { PoseNone, PoseDict(0, 0), PoseDict(1, 0) }
                 \cup { PoseDict(1, n) : n \in KeypointCounts }

\* The library results a call can depend on: the correlation only with a style
\* reference, the noise only with keypoints.
LibFor(style_given, pose_keypoints, ssims, bgs, edges, corrs, noises) ==
    { [ssim |-> s, de_bg |-> b, de_edge |-> e, corr |-> c, noise |-> n] :
        s \in ssims, b \in bgs, e \in edges,
        c \in (IF style_given THEN corrs ELSE {0}),
        n \in (IF pose_keypoints.points > 0 THEN noises ELSE {0}) }

NoMask == MaskOf(1, 1, 255, 0)

NoCall == [generated_ok |-> FALSE, mask |-> NoMask, style_given |-> FALSE,
           pose_keypoints |-> PoseNone, lib |-> NoLib]

NoInputs == [mask |-> NoMask, style_given |-> FALSE, pose_keypoints |-> PoseNone]

Pending == Raised("pending")
Idle == Raised("idle")

Alternates == {"qwen", "nano_banana"}

NoReport == [results |-> <<>>, scores |-> <<>>, best_method |-> "none", improvement |-> 0]

RunIdle ==
    /\ entry = "none"
    /\ pc = "idle"
    /\ original = "ok"
    /\ disk = [m \in Alternates |-> "absent"]
    /\ writable = [m \in Alternates |-> TRUE]
    /\ args = [m \in Alternates |-> FALSE]
    /\ qwen_success = FALSE
    /\ nano_banana_success = FALSE
    /\ inputs = NoInputs
    /\ report = NoReport
    /\ method_status = <<>>
    /\ recommendations = <<>>
    /\ error = ErrNone

AssessInit ==
    /\ \E g \in BOOLEAN, mask \in Masks, st \in BOOLEAN, pk \in PoseInputs :
         \E lib \in (IF g THEN LibFor(st, pk, LibSsim, LibDeltaE, LibDeltaE, LibCorr, LibNoise)
                          ELSE {NoLib}) :
            call = [generated_ok |-> g, mask |-> mask, style_given |-> st,
                    pose_keypoints |-> pk, lib |-> lib]
    /\ ret = Pending
    /\ RunIdle

Assess ==
    /\ ret = Pending
    /\ ret' = assess_generation_quality(call.generated_ok, call.mask, call.style_given,
                                        call.pose_keypoints, call.lib)
    /\ UNCHANGED <<call, run_vars>>

AssessNext == Assess

SpecAssess == AssessInit /\ [][AssessNext]_vars

---------------------------------------------------------------------------
(* SelectionPolicy and compare_correction_methods *)

SsimFloor == 92
EdgeCeiling == 3

\* Variant: the similarity floor is taken to be the 0.95 of the recommendations.
calculate_penalty_floor95(metrics) ==
    LET p1 == IF metrics.ssim_background < Pct(95)
              THEN (Pct(95) - metrics.ssim_background) * 10 * 1000
              ELSE 0
        p2 == IF metrics.delta_e_edge # NaN /\ metrics.delta_e_edge > 3 * One
              THEN (metrics.delta_e_edge - 3 * One) * 2 * 1000
              ELSE 0
    IN  p1 + p2

\* In quality units: (0.92 - ssim) * 10 and (delta_e_edge - 3.0) * 2.  A NaN
\* delta_e_edge compares false with 3.0.
calculate_penalty(metrics) ==
    LET p1 == IF metrics.ssim_background < Pct(SsimFloor)
              THEN (Pct(SsimFloor) - metrics.ssim_background) * 10 * 1000
              ELSE 0
        p2 == IF metrics.delta_e_edge # NaN /\ metrics.delta_e_edge > EdgeCeiling * One
              THEN (metrics.delta_e_edge - EdgeCeiling * One) * 2 * 1000
              ELSE 0
    IN  p1 + p2

\* The insertion order of the results dict.
MethodOrder == << "original", "qwen", "nano_banana" >>

\* Variant: the penalty is computed but not subtracted.
score_of_base(metrics) == metrics.overall_quality

score_of(metrics) == metrics.overall_quality - calculate_penalty(metrics)

score_methods(results) == [method \in DOMAIN results |-> score_of(results[method])]

\* Variant: a later key that only equals the best so far replaces it.
RECURSIVE max_by_score_last(_, _, _)
max_by_score_last(scores, k, best) ==
    IF k > Len(MethodOrder) THEN best
    ELSE LET method == MethodOrder[k]
         IN  IF method \notin DOMAIN scores THEN max_by_score_last(scores, k + 1, best)
             ELSE IF best = "none" \/ scores[method] >= scores[best]
                  THEN max_by_score_last(scores, k + 1, method)
                  ELSE max_by_score_last(scores, k + 1, best)

\* max(scores, key=scores.get): the first key, in insertion order, that no later
\* key strictly exceeds.
RECURSIVE max_by_score(_, _, _)
max_by_score(scores, k, best) ==
    IF k > Len(MethodOrder) THEN best
    ELSE LET method == MethodOrder[k]
         IN  IF method \notin DOMAIN scores THEN max_by_score(scores, k + 1, best)
             ELSE IF best = "none" \/ scores[method] > scores[best]
                  THEN max_by_score(scores, k + 1, method)
                  ELSE max_by_score(scores, k + 1, best)

\* Variant: the improvement is taken against the raw 0.0 substitute.
improvement_of_zero(scores, best_method) == scores[best_method] - 0

improvement_of(scores, best_method) ==
    scores[best_method] - (IF "original" \in DOMAIN scores THEN scores["original"] ELSE 0)

Failed(e) == [error |-> e, report |-> NoReport]

report_best(results, scores, best_method) ==
    [error |-> ErrNone,
     report |-> [results |-> results,
                 scores |-> scores,
                 best_method |-> best_method,
                 improvement |-> improvement_of(scores, best_method)]]

report_scored(results, scores) ==
    report_best(results, scores, max_by_score(scores, 1, "none"))

report_of(results) == report_scored(results, score_methods(results))

\* Variant: a candidate that cannot be assessed is left out, the original
\* included, and the report is made from the rest.
compare_assessed_lenient(test, assessed) ==
    IF \E a \in Alternates : test[a] = "NameError" THEN Failed("NameError")
    ELSE IF \A m \in DOMAIN assessed : assessed[m].error # ErrNone
         THEN Failed(assessed["original"].error)
    ELSE report_of([m \in { c \in DOMAIN assessed : assessed[c].error = ErrNone } |->
                      assessed[m].metrics])

\* test[m]: "evaluate", "skip" or "NameError"; assessed[m]: the assessment of
\* each candidate that is evaluated.
compare_assessed(test, assessed) ==
    IF assessed["original"].error # ErrNone THEN Failed(assessed["original"].error)
    ELSE IF test["qwen"] = "NameError" THEN Failed("NameError")
    ELSE IF test["qwen"] = "evaluate" /\ assessed["qwen"].error # ErrNone
         THEN Failed(assessed["qwen"].error)
    ELSE IF test["nano_banana"] = "NameError" THEN Failed("NameError")
    ELSE IF test["nano_banana"] = "evaluate" /\ assessed["nano_banana"].error # ErrNone
         THEN Failed(assessed["nano_banana"].error)
    ELSE report_of([m \in DOMAIN assessed |-> assessed[m].metrics])

compare_tested(test, original_state, file, run_inputs, libs) ==
    compare_assessed(test,
        [m \in {"original"} \cup { a \in Alternates : test[a] = "evaluate" } |->
            assess_generation_quality(
                IF m = "original" THEN original_state = "ok" ELSE file[m] = "image",
                run_inputs.mask, run_inputs.style_given, run_inputs.pose_keypoints,
                libs[m])])

\* os_imported: whether the global os exists in qa_metrics (only when the module
\* runs as a script).  path[m]: the path argument is given; file[m]: what is on
\* disk at it.  libs[m]: what the libraries compute on candidate m.
compare_correction_methods(os_imported, original_state, path, file, run_inputs, libs) ==
    compare_tested([m \in Alternates |->
                      IF ~path[m] THEN "skip"
                      ELSE IF ~os_imported THEN "NameError"
                      ELSE IF file[m] = "absent" THEN "skip" ELSE "evaluate"],
                   original_state, file, run_inputs, libs)

---------------------------------------------------------------------------
(* CorrectionPipeline *)

\* shutil.copy2(original, output), cv2.imread(output), an edit, cv2.imwrite:
\* any exception gives False.  Returns the success flag and the file left at
\* the output path.
run_correction(original_state, output_writable, old_file) ==
    IF original_state = "missing" \/ ~output_writable
    THEN [success |-> FALSE, file |-> old_file]
    ELSE IF original_state = "corrupt"
    THEN [success |-> FALSE, file |-> "corrupt"]
    ELSE [success |-> TRUE, file |-> "image"]

run_qwen_correction(original_state, output_writable, old_file) ==
    run_correction(original_state, output_writable, old_file)

run_nano_banana_correction(original_state, output_writable, old_file) ==
    run_correction(original_state, output_writable, old_file)

ImprovementRule == 10
QwenSsimRule == 95
NanoStyleRule == 80
OriginalQualityRule == 70

UseMessage(best_method) ==
    CASE best_method = "qwen" -> "Use qwen method"
      [] best_method = "nano_banana" -> "Use nano_banana method"
      [] OTHER -> "Use original method"

\* Variant: the default message depends on the original's quality alone.
generate_recommendations_default(results) ==
    LET r1 == IF results.improvement > ImprovementRule * 10 * One
              THEN << UseMessage(results.best_method) >> ELSE << >>
        r2 == IF "qwen" \in DOMAIN results.results
                 /\ results.results["qwen"].ssim_background > Pct(QwenSsimRule)
              THEN << "Qwen-Image-Edit shows excellent background preservation" >> ELSE << >>
        r3 == IF "nano_banana" \in DOMAIN results.results
                 /\ results.results["nano_banana"].style_consistency > Pct(NanoStyleRule)
              THEN << "Nano-Banana demonstrates strong style consistency" >> ELSE << >>
        r4 == IF results.results["original"].overall_quality < OriginalQualityRule * 10 * One
              THEN << "Consider adjusting prompt or generation parameters" >>
              ELSE << "Original generation provides optimal results" >>
    IN  r1 \o r2 \o r3 \o r4

generate_recommendations(results) ==
    LET r1 == IF results.improvement > ImprovementRule * 10 * One
              THEN << UseMessage(results.best_method) >> ELSE << >>
        r2 == IF "qwen" \in DOMAIN results.results
                 /\ results.results["qwen"].ssim_background > Pct(QwenSsimRule)
              THEN << "Qwen-Image-Edit shows excellent background preservation" >>
              ELSE << >>
        r3 == IF "nano_banana" \in DOMAIN results.results
                 /\ results.results["nano_banana"].style_consistency > Pct(NanoStyleRule)
              THEN << "Nano-Banana demonstrates strong style consistency" >>
              ELSE << >>
        r4 == IF results.results["original"].overall_quality < OriginalQualityRule * 10 * One
              THEN << "Consider adjusting prompt or generation parameters" >>
              ELSE << >>
        recs == r1 \o r2 \o r3 \o r4
    IN  IF recs = << >>
        THEN << "Original generation provides optimal results" >>
        ELSE recs

---------------------------------------------------------------------------
(* One run: qa_metrics.main ("cli") or CorrectionPipeline.run_full_pipeline *)

Methods == {"original"} \cup Alternates

RunMasks == { NoMask,
              MaskOf(1, MaskLen + 1, 255, 0),
              MaskOf(MaskLen \div 2, (MaskLen \div 2) + 1, 255, 0) }
RunPose == { PoseNone, PoseDict(1, 0), PoseDict(1, FullBody) }
RunSsim == { Pct(80), Pct(SsimFloor), Pct(QwenSsimRule), One }
RunDeltaBg == { 0 }
RunDeltaEdge == { One, EdgeCeiling * One, 5 * One }
RunCorr == { Pct(90) }
RunNoise == { 0 }

RunLib(m, relevant) ==
    IF m \in relevant
    THEN LibFor(inputs.style_given, inputs.pose_keypoints,
                RunSsim, RunDeltaBg, RunDeltaEdge, RunCorr, RunNoise)
    ELSE { NoLib }

RunLibs(relevant) ==
    { [original |-> lo, qwen |-> lq, nano_banana |-> ln] :
        lo \in RunLib("original", relevant), lq \in RunLib("qwen", relevant),
        ln \in RunLib("nano_banana", relevant) }

RunInit ==
    /\ \E e \in {"cli", "pipeline"}, ws \in [Alternates -> BOOLEAN],
          as \in [Alternates -> BOOLEAN] :
         /\ entry = e
         /\ writable = (IF e = "pipeline" THEN ws ELSE [m \in Alternates |-> TRUE])
         /\ args = (IF e = "cli" THEN as ELSE [m \in Alternates |-> FALSE])
    /\ pc = "start"
    /\ original \in {"missing", "corrupt", "ok"}
    /\ disk \in [Alternates -> {"absent", "image"}]
    /\ \E mask \in RunMasks, st \in BOOLEAN, pk \in RunPose :
         inputs = [mask |-> mask, style_given |-> st, pose_keypoints |-> pk]
    /\ qwen_success = FALSE
    /\ nano_banana_success = FALSE
    /\ report = NoReport
    /\ method_status = <<>>
    /\ recommendations = <<>>
    /\ error = ErrNone
    /\ call = NoCall
    /\ ret = Idle

RunQwenCorrection ==
    /\ entry = "pipeline" /\ pc = "start"
    /\ LET r == run_qwen_correction(original, writable["qwen"], disk["qwen"])
       IN  /\ qwen_success' = r.success
           /\ disk' = [disk EXCEPT !["qwen"] = r.file]
    /\ pc' = "qwen_done"
    /\ UNCHANGED <<call, ret, entry, original, writable, args, nano_banana_success,
                   inputs, report, method_status, recommendations, error>>

RunNanoBananaCorrection ==
    /\ entry = "pipeline" /\ pc = "qwen_done"
    /\ LET r == run_nano_banana_correction(original, writable["nano_banana"],
                                           disk["nano_banana"])
       IN  /\ nano_banana_success' = r.success
           /\ disk' = [disk EXCEPT !["nano_banana"] = r.file]
    /\ pc' = "nano_done"
    /\ UNCHANGED <<call, ret, entry, original, writable, args, qwen_success,
                   inputs, report, method_status, recommendations, error>>

\* The candidates whose pixels the libraries get to see in a comparison.
Relevant(os_imported, path) ==
    (IF original = "ok" THEN {"original"} ELSE {})
      \cup { m \in Alternates : path[m] /\ os_imported /\ disk[m] = "image" }

PipelineCompared(r) ==
    IF r.error # ErrNone
    THEN /\ error' = r.error
         /\ pc' = "raised"
         /\ UNCHANGED <<report, method_status>>
    ELSE /\ report' = r.report
         /\ method_status' = [qwen |-> qwen_success, nano_banana |-> nano_banana_success]
         /\ pc' = "compared"
         /\ UNCHANGED error

PipelinePaths ==
    [m \in Alternates |-> IF m = "qwen" THEN qwen_success ELSE nano_banana_success]

\* run_full_pipeline from the comparison to method_status.
PipelineCompare ==
    /\ entry = "pipeline" /\ pc = "nano_done"
    /\ \E libs \in RunLibs(Relevant(FALSE, PipelinePaths)) :
         \E r \in { compare_correction_methods(FALSE, original, PipelinePaths,
                                               disk, inputs, libs) } :
            PipelineCompared(r)
    /\ UNCHANGED <<call, ret, entry, original, disk, writable, args, qwen_success,
                   nano_banana_success, inputs, recommendations>>

PipelineRecommend ==
    /\ entry = "pipeline" /\ pc = "compared"
    /\ recommendations' = generate_recommendations(report)
    /\ pc' = "returned"
    /\ UNCHANGED <<call, ret, entry, original, disk, writable, args, qwen_success,
                   nano_banana_success, inputs, report, method_status, error>>

CliCompared(r) ==
    IF r.error # ErrNone
    THEN /\ error' = r.error
         /\ pc' = "raised"
         /\ UNCHANGED report
    ELSE /\ report' = r.report
         /\ pc' = "returned"
         /\ UNCHANGED error

\* qa_metrics.main: the module runs as a script, so os is imported.
CliCompare ==
    /\ entry = "cli" /\ pc = "start"
    /\ \E libs \in RunLibs(Relevant(TRUE, args)) :
         \E r \in { compare_correction_methods(TRUE, original, args, disk, inputs, libs) } :
            CliCompared(r)
    /\ UNCHANGED <<call, ret, entry, original, disk, writable, args, qwen_success,
                   nano_banana_success, inputs, method_status, recommendations>>

Next ==
    \/ RunQwenCorrection
    \/ RunNanoBananaCorrection
    \/ PipelineCompare
    \/ PipelineRecommend
    \/ CliCompare

Spec == RunInit /\ [][Next]_vars

---------------------------------------------------------------------------
(* Properties of one assessment (SpecAssess) *)

Assessed == ret.error = ErrNone

Clamp(x, lo, hi) == IF x < lo THEN lo ELSE IF x > hi THEN hi ELSE x

\* C1: the stored overall_quality of every assessed candidate is within [0, 1],
\* whatever finite metric values the assessment found, very large colour
\* differences included.
C1_OverallQualityBounded ==
    Assessed => /\ ret.metrics.overall_quality >= 0
                /\ ret.metrics.overall_quality <= QOne

\* A candidate with a very large colour difference whose weighted sum is below 0.
C1_Witness ==
    /\ Assessed
    /\ ret.metrics.delta_e_background = BigDeltaE * One
    /\ ret.metrics.delta_e_edge = BigDeltaE * One
    /\ ret.metrics.ssim_background = 0 - One
    /\ weighted_sum(ret.metrics, Len(MetricNames)) < 0
    /\ ret.metrics.overall_quality = 0

\* The formula of the claim, in quality units: n(v) = clamp(1 - v/10, 0, 1).
ClaimedN(v) == Clamp(10 * One - v, 0, 10 * One)

ClaimedQuality(metrics) ==
    Clamp(300 * metrics.ssim_background
            - 10 * ClaimedN(metrics.delta_e_background)
            - 20 * ClaimedN(metrics.delta_e_edge)
            + 200 * metrics.style_consistency
            + 300 * metrics.pose_accuracy,
          0, QOne)

Finite(metrics) == metrics.delta_e_background # NaN /\ metrics.delta_e_edge # NaN

IdentityScenario(metrics) ==
    /\ metrics.ssim_background = One
    /\ metrics.delta_e_background = 0
    /\ metrics.delta_e_edge = 0
    /\ metrics.style_consistency = 0
    /\ metrics.pose_accuracy = 0

\* C2: for finite metric values overall_quality is clamp(0.3*ssim - 0.1*n(dE_bg)
\* - 0.2*n(dE_edge) + 0.2*style + 0.3*pose, 0, 1) with n applied to the two
\* colour differences only; in the identity scenario that value is 0.3 - 0.1 - 0.2.
C2_OverallQualityFormula ==
    (Assessed /\ Finite(ret.metrics)) =>
        /\ ret.metrics.overall_quality = ClaimedQuality(ret.metrics)
        /\ IdentityScenario(ret.metrics) => ret.metrics.overall_quality = 0

\* The identity scenario, with a subject inside the mask, no style reference and
\* no keypoints.
C2_Witness ==
    /\ Assessed
    /\ IdentityScenario(ret.metrics)
    /\ Foreground(call.mask) # {} /\ mask_ring(call.mask, RingWidth) # {}
    /\ ~call.style_given /\ call.pose_keypoints = PoseNone
    /\ ret.metrics.overall_quality = ClaimedQuality(ret.metrics)

\* C9: calculate_delta_e gives exactly 0.0, neither NaN nor an exception, on a
\* region of no pixel (the background of an all-foreground mask, the ring of an
\* all-foreground or all-background mask), and the stored metric is then 0.0.
C9_EmptyRegionGivesZero ==
    (ret # Pending /\ call.generated_ok) =>
        /\ Background(call.mask) = {} =>
              /\ calculate_delta_e(Background(call.mask), call.lib.de_bg) = 0
              /\ Assessed => ret.metrics.delta_e_background = 0
        /\ mask_ring(call.mask, RingWidth) = {} =>
              /\ calculate_delta_e(mask_ring(call.mask, RingWidth), call.lib.de_edge) = 0
              /\ Assessed => ret.metrics.delta_e_edge = 0

\* C10: calculate_ssim_background gives the fallback 1.0 and does not fail when
\* the background has fewer pixels than the similarity window, none included.
C10_SmallBackgroundFallback ==
    (ret # Pending /\ call.generated_ok
       /\ Cardinality(Background(call.mask)) < WinSize) =>
        /\ calculate_ssim_background(call.mask, call.lib).error = ErrNone
        /\ calculate_ssim_background(call.mask, call.lib).value = One
        /\ Assessed /\ ret.metrics.ssim_background = One

---------------------------------------------------------------------------
(* Properties of one run (Spec) *)

HasReport == pc \in {"compared", "returned"}

Evaluated == DOMAIN report.results

Position(method) == CHOOSE k \in 1..Len(MethodOrder) : MethodOrder[k] = method

\* The penalty as the claim words it, in quality units.
ClaimedPenalty(metrics) ==
    (IF metrics.ssim_background < Pct(92)
        THEN (Pct(92) - metrics.ssim_background) * 10000 ELSE 0)
    + (IF metrics.delta_e_edge # NaN /\ metrics.delta_e_edge > 3 * One
        THEN (metrics.delta_e_edge - 3 * One) * 2000 ELSE 0)

WithinThresholds(metrics) ==
    /\ metrics.ssim_background >= Pct(92)
    /\ metrics.delta_e_edge # NaN /\ metrics.delta_e_edge <= 3 * One

\* C3: the penalty of a candidate is (0.92 - ssim)*10 below 0.92 plus
\* (dE_edge - 3.0)*2 above 3.0 and nothing else; with ssim >= 0.92 and
\* dE_edge <= 3.0, boundaries included, the score equals overall_quality.
C3_PenaltyFloor ==
    HasReport =>
        \A m \in Evaluated :
            /\ report.scores[m]
                  = report.results[m].overall_quality - ClaimedPenalty(report.results[m])
            /\ WithinThresholds(report.results[m])
                  => report.scores[m] = report.results[m].overall_quality

\* A report with one candidate exactly on both thresholds and one penalised on
\* both.
C3_Witness ==
    /\ HasReport
    /\ \E m \in Evaluated :
          /\ report.results[m].ssim_background = Pct(92)
          /\ report.results[m].delta_e_edge = 3 * One
          /\ report.scores[m] = report.results[m].overall_quality
    /\ \E m \in Evaluated :
          /\ report.results[m].ssim_background < Pct(92)
          /\ report.results[m].delta_e_edge > 3 * One
          /\ report.scores[m] < report.results[m].overall_quality

\* C4: best_method is an evaluated candidate of maximal score, and among the
\* candidates of maximal score the first in the order original, qwen,
\* nano_banana.
C4_BestIsFirstMaximum ==
    HasReport =>
        /\ report.best_method \in Evaluated
        /\ \A m \in Evaluated :
              /\ report.scores[report.best_method] >= report.scores[m]
              /\ report.scores[m] = report.scores[report.best_method]
                    => Position(report.best_method) <= Position(m)

\* Both alternates evaluated and tied above the original: qwen is selected.
C4_Witness ==
    /\ HasReport
    /\ Evaluated = Methods
    /\ report.scores["qwen"] = report.scores["nano_banana"]
    /\ report.scores["qwen"] > report.scores["original"]
    /\ report.best_method = "qwen"

ProfileA(metrics) ==
    metrics.ssim_background = Pct(80) /\ metrics.delta_e_edge = 5 * One

ProfileB(metrics) ==
    metrics.ssim_background = Pct(95) /\ metrics.delta_e_edge = One

\* C5: a candidate with ssim 0.80 and dE_edge 5.0 always scores strictly below a
\* candidate with ssim 0.95 and dE_edge 1.0, whatever their overall qualities,
\* and is never selected.
C5_PenaltyOverridesBase ==
    HasReport =>
        \A a, b \in Evaluated :
            (ProfileA(report.results[a]) /\ ProfileB(report.results[b])) =>
                /\ report.scores[b] > report.scores[a]
                /\ report.best_method # a
                /\ \A qa, qb \in {0, QOne} :
                      qb - calculate_penalty(report.results[b])
                          > qa - calculate_penalty(report.results[a])

\* The two profiles meet with the raw qualities in the opposite order.
C5_Witness ==
    /\ HasReport
    /\ \E a, b \in Evaluated :
          /\ ProfileA(report.results[a]) /\ ProfileB(report.results[b])
          /\ report.results[a].overall_quality > report.results[b].overall_quality
          /\ report.scores[b] > report.scores[a]

\* C6: improvement is scores[best_method] - scores["original"], both of this
\* run; the original always has a score, so the 0.0 substitute is never used.
C6_ImprovementOverOriginal ==
    HasReport =>
        /\ "original" \in DOMAIN report.scores
        /\ report.improvement
              = report.scores[report.best_method] - report.scores["original"]

\* An alternate is selected over an original whose score is not 0.
C6_Witness ==
    /\ HasReport
    /\ report.best_method # "original"
    /\ report.scores["original"] # 0
    /\ report.improvement > 0

Success(m) == IF m = "qwen" THEN qwen_success ELSE nano_banana_success

Compared == pc \in {"compared", "returned", "raised"}

\* An alternate with no image to evaluate: its correction failed (pipeline), or
\* no path was given or no file is at the path (script).
Unavailable(m) ==
    IF entry = "pipeline" THEN ~Success(m) ELSE (~args[m] \/ disk[m] = "absent")

EnoughBackground == Cardinality(Background(inputs.mask)) >= WinSize

UnavailableExcluded ==
    HasReport =>
        \A m \in Alternates :
            Unavailable(m) =>
                /\ m \notin DOMAIN report.results
                /\ m \notin DOMAIN report.scores
                /\ report.best_method # m
                /\ entry = "pipeline" => ~method_status[m]

FailureStillReports ==
    (entry = "pipeline" /\ Compared /\ original = "ok" /\ EnoughBackground
       /\ \E m \in Alternates : ~Success(m))
        => pc # "raised"

\* C7: an unavailable alternate has no entry in results or scores and is never
\* best_method, a stale file at its output path notwithstanding; in the pipeline
\* its method_status is false and the run still returns a report.
C7_UnavailableIsNoError == UnavailableExcluded /\ FailureStillReports

\* C8: when a correction of the pipeline succeeds, the comparison called from the
\* pipeline completes without raising and the report has the method's metrics
\* and score, with method_status true.
C8_AvailableIsEvaluated ==
    (entry = "pipeline" /\ Compared /\ EnoughBackground) =>
        \A m \in Alternates :
            Success(m) =>
                /\ pc # "raised"
                /\ m \in DOMAIN report.results
                /\ m \in DOMAIN report.scores
                /\ method_status[m]

---------------------------------------------------------------------------
(* Pose default (SpecAssess) *)

\* C11 as stated: pose_accuracy is 0.8 when no keypoint object is passed and
\* 0.0 when a keypoint object with an empty point list is passed.
C11_PoseDefaultAsStated ==
    Assessed =>
        /\ call.pose_keypoints = PoseNone => ret.metrics.pose_accuracy = Pct(80)
        /\ call.pose_keypoints = PoseDict(1, 0) => ret.metrics.pose_accuracy = 0

\* C11, amended: pose_accuracy is 0.0 when no keypoint object is passed (None,
\* or an empty dict), and the neutral default 0.8 when a non-empty keypoint
\* object is passed whose point list is empty.
C11_PoseDefault ==
    Assessed =>
        /\ call.pose_keypoints \in {PoseNone, PoseDict(0, 0)}
              => ret.metrics.pose_accuracy = 0
        /\ call.pose_keypoints = PoseDict(1, 0) => ret.metrics.pose_accuracy = Pct(80)

\* An assessment with a keypoint object whose point list is empty.
C11_Witness ==
    /\ Assessed
    /\ call.pose_keypoints = PoseDict(1, 0)
    /\ ret.metrics.pose_accuracy = Pct(80)

---------------------------------------------------------------------------
(* One call of generate_recommendations on a comparison report (SpecRecommend) *)

\* Metric sets of the candidates of a report, as assess_generation_quality
\* returns them.
RecSsim == {Pct(SsimFloor), One}
RecDeltaE == {One, 10 * One}
RecStyle == {0, Pct(90)}
RecPose == {0, Pct(90)}

RecMetrics ==
    { with_overall(m, overall_quality(m)) :
        m \in { [ssim_background |-> s, delta_e_background |-> 10 * One,
                 delta_e_edge |-> e, style_consistency |-> st, pose_accuracy |-> po,
                 overall_quality |-> 0] :
                s \in RecSsim, e \in RecDeltaE, st \in RecStyle, po \in RecPose } }

\* The reports compare_correction_methods returns: the original and any of
\* the alternates, scored.
RecReports ==
    { report_of(results).report :
        results \in UNION { [ {"original"} \cup alts -> RecMetrics] :
                            alts \in SUBSET Alternates } }

RecommendInit ==
    /\ call = NoCall
    /\ ret = Idle
    /\ entry = "recommend"
    /\ pc = "start"
    /\ original = "ok"
    /\ disk = [m \in Alternates |-> "absent"]
    /\ writable = [m \in Alternates |-> TRUE]
    /\ args = [m \in Alternates |-> FALSE]
    /\ qwen_success = FALSE
    /\ nano_banana_success = FALSE
    /\ inputs = NoInputs
    /\ report \in RecReports
    /\ method_status = <<>>
    /\ recommendations = <<>>
    /\ error = ErrNone

Recommend ==
    /\ entry = "recommend" /\ pc = "start"
    /\ recommendations' = generate_recommendations(report)
    /\ pc' = "returned"
    /\ UNCHANGED <<call, ret, entry, original, disk, writable, args, qwen_success,
                   nano_banana_success, inputs, report, method_status, error>>

RecommendNext == Recommend

SpecRecommend == RecommendInit /\ [][RecommendNext]_vars

---------------------------------------------------------------------------
(* Recommendation rules *)

Recommended == pc = "returned" /\ entry \in {"pipeline", "recommend"}

DefaultMessage == "Original generation provides optimal results"

RuleHolds(i) ==
    CASE i = 1 -> report.improvement > ImprovementRule * 10 * One
      [] i = 2 -> /\ "qwen" \in DOMAIN report.results
                  /\ report.results["qwen"].ssim_background > Pct(QwenSsimRule)
      [] i = 3 -> /\ "nano_banana" \in DOMAIN report.results
                  /\ report.results["nano_banana"].style_consistency > Pct(NanoStyleRule)
      [] OTHER -> report.results["original"].overall_quality
                     < OriginalQualityRule * 10 * One

RuleMessage(i) ==
    CASE i = 1 -> UseMessage(report.best_method)
      [] i = 2 -> "Qwen-Image-Edit shows excellent background preservation"
      [] i = 3 -> "Nano-Banana demonstrates strong style consistency"
      [] OTHER -> "Consider adjusting prompt or generation parameters"

FiredRules == {i \in 1..4 : RuleHolds(i)}

\* The k-th rule that fired, in the order (a), (b), (c), (d).
NthFired(k) == CHOOSE i \in FiredRules : Cardinality({j \in FiredRules : j < i}) = k - 1

Emitted == {recommendations[k] : k \in DOMAIN recommendations}

\* C12: the recommendations are one message per rule (a)-(d) that holds, in
\* that order; the default message is present exactly when no rule fired, so
\* the list is never empty and the default never accompanies another message.
C12_RuleOrder ==
    Recommended =>
        /\ Len(recommendations) >= 1
        /\ (DefaultMessage \in Emitted) <=> (FiredRules = {})
        /\ DefaultMessage \in Emitted => Len(recommendations) = 1
        /\ FiredRules # {} =>
              /\ Len(recommendations) = Cardinality(FiredRules)
              /\ \A k \in 1..Len(recommendations) :
                    recommendations[k] = RuleMessage(NthFired(k))

\* A report on which all four rules fire.
C12_Witness ==
    /\ Recommended
    /\ FiredRules = 1..4
    /\ Len(recommendations) = 4
    /\ recommendations[1] = UseMessage(report.best_method)
    /\ recommendations[4] = "Consider adjusting prompt or generation parameters"

---------------------------------------------------------------------------
(* The mandatory original (Spec) *)

\* C13: when no image can be read at original_path, compare_correction_methods
\* signals an error and returns no report; nothing is produced from the
\* alternates alone.
C13_OriginalIsMandatory ==
    original # "ok" =>
        /\ report = NoReport
        /\ recommendations = << >>
        /\ Compared => pc = "raised" /\ error # ErrNone

\* A comparison with an unreadable original and a readable alternate.
C13_Witness ==
    /\ entry = "cli"
    /\ original = "missing"
    /\ args["qwen"] /\ disk["qwen"] = "image"
    /\ pc = "raised"
    /\ error = "cv2.error"

---------------------------------------------------------------------------
(* Background region and boundary ring (SpecAssess) *)

\* C14 as stated: for every mask the background region used for
\* delta_e_background and the boundary ring used for delta_e_edge share no pixel.
C14_RingDisjointAsStated ==
    Assessed => Background(call.mask) \cap mask_ring(call.mask, RingWidth) = {}

\* C14, amended: the background region and the boundary ring share no pixel
\* exactly for the masks that are all subject or all background, where the
\* ring is empty; for every other mask the ring holds background pixels.
C14_RingStraddlesEdge ==
    /\ (Background(call.mask) \cap mask_ring(call.mask, RingWidth) = {})
          <=> (Foreground(call.mask) = {} \/ Background(call.mask) = {})
    /\ (Foreground(call.mask) = {} \/ Background(call.mask) = {})
          => mask_ring(call.mask, RingWidth) = {}

\* An assessed candidate whose ring holds the subject and background next to it.
C14_Witness ==
    /\ Assessed
    /\ Foreground(call.mask) # {}
    /\ Foreground(call.mask) \subseteq mask_ring(call.mask, RingWidth)
    /\ Background(call.mask) \cap mask_ring(call.mask, RingWidth) # {}
    /\ ret.metrics.delta_e_edge = call.lib.de_edge

---------------------------------------------------------------------------
(* Sign of the improvement (Spec) *)

\* C15: in every report improvement is >= 0; it is 0 whenever best_method is
\* the original, and strictly positive whenever best_method is an alternate,
\* which is selected only when its score strictly exceeds the original's.
C15_ImprovementSign ==
    HasReport =>
        /\ report.improvement >= 0
        /\ report.best_method = "original" => report.improvement = 0
        /\ report.best_method \in Alternates =>
              /\ report.improvement > 0
              /\ report.scores[report.best_method] > report.scores["original"]

\* The original is kept although an alternate reaches the same score.
C15_Witness ==
    /\ HasReport
    /\ \E a \in Evaluated \cap Alternates :
          report.scores[a] = report.scores["original"]
    /\ report.best_method = "original"
    /\ report.improvement = 0

---------------------------------------------------------------------------
(* Direction of the colour differences (SpecAssess) *)

\* The overall_quality of the assessed metric set with one colour difference
\* replaced by value.
QualityWith(metric, value) ==
    overall_quality(IF metric = "delta_e_background"
                    THEN [ret.metrics EXCEPT !.delta_e_background = value]
                    ELSE [ret.metrics EXCEPT !.delta_e_edge = value])

\* C16: of two metric sets that agree on ssim_background, style_consistency and
\* pose_accuracy, the one with the larger delta_e_background or delta_e_edge
\* never has a strictly higher overall_quality.
C16_WorseColourNeverScoresHigher ==
    (Assessed /\ Finite(ret.metrics)) =>
        /\ \A bg \in LibDeltaE :
              bg > ret.metrics.delta_e_background
                 => QualityWith("delta_e_background", bg) <= ret.metrics.overall_quality
        /\ \A edge \in LibDeltaE :
              edge > ret.metrics.delta_e_edge
                 => QualityWith("delta_e_edge", edge) <= ret.metrics.overall_quality

---------------------------------------------------------------------------
(* Runs without optional inputs (Spec) *)

NoOptionalInputs ==
    /\ entry = "pipeline"
    /\ ~inputs.style_given
    /\ inputs.pose_keypoints = PoseNone

\* The largest overall_quality the similarity term alone can give.
SsimShare == weights["ssim_background"] * 10 * One

\* The metric sets of a candidate assessed without style reference and keypoints.
BareMetrics ==
    { [ssim_background |-> s, delta_e_background |-> bg, delta_e_edge |-> edge,
       style_consistency |-> 0, pose_accuracy |-> 0] :
        s \in LibSsim, bg \in LibDeltaE \cup {NaN}, edge \in LibDeltaE \cup {NaN} }

\* C17: in a run of run_full_pipeline with neither a style reference nor pose
\* keypoints the original's overall_quality is at most 0.3 for all metric
\* values, so the returned recommendations hold "Consider adjusting prompt or
\* generation parameters" and the default message is never emitted.
C17_BareRunAlwaysAdvised ==
    NoOptionalInputs =>
        /\ DefaultMessage \notin Emitted
        /\ HasReport =>
              /\ report.results["original"].overall_quality <= SsimShare
              /\ \A m \in BareMetrics : overall_quality(m) <= SsimShare
        /\ pc = "returned" =>
              "Consider adjusting prompt or generation parameters" \in Emitted

\* A returned run without optional inputs whose original is not scored 0.
C17_Witness ==
    /\ NoOptionalInputs
    /\ pc = "returned"
    /\ report.results["original"].overall_quality > 0
    /\ report.results["original"].overall_quality <= SsimShare
    /\ recommendations = << "Consider adjusting prompt or generation parameters" >>

====
